---- MODULE Spec2Model ----
(***************************************************************************)
(* Model of the address book / user backend (app/repositories,             *)
(* app/services, app/api).  The relational store is the only shared        *)
(* state; every request works through its own SQLAlchemy session, whose    *)
(* identity map and unit of work are modelled explicitly because several   *)
(* repository methods change objects without committing.                   *)
(***************************************************************************)
EXTENDS Integers, FiniteSets, Sequences, TLC

\* ------------------------------------------------------------------ bounds
MaxAddr == 2
MaxUser == 2

AddrIds == 1..MaxAddr
UserIds == 1..MaxUser
None == 0

VARIABLES
    addrs,      \* addresses table: AddrIds -> row (committed state)
    last,       \* the last address request and its response
    pre,        \* addresses table before the last address request
    sess,       \* repository layer: the caller-held session
    rlast,      \* repository layer: the last repository call
    rpre,       \* repository layer: in-session view before the last call
    task,       \* concurrent set-default requests: position, arguments, session
    overlap,    \* whether the requests in `task` ran interleaved
    users,      \* users table: UserIds -> row (committed state)
    greq,       \* the last request to an endpoint and what the guard answered
    ulast,      \* the last user request, its arguments and its response
    upre        \* users table before the last user request

histVars  == <<last, pre>>
repoVars  == <<sess, rlast, rpre>>
concVars  == <<task, overlap>>
guardVars == <<users, greq>>
userVars  == <<ulast, upre>>

vars == <<addrs, last, pre, sess, rlast, rpre, task, overlap, users, greq, ulast, upre>>

\* ------------------------------------------------------------------ rows
\* Address (models.py): owner_id, is_default, deleted_at; `exists` tells
\* whether the table holds a row with that primary key.
NoRow == [exists |-> FALSE, owner |-> None, is_default |-> FALSE, deleted |-> FALSE]

NewAddress(owner, is_default) ==
    [exists |-> TRUE, owner |-> owner, is_default |-> is_default, deleted |-> FALSE]

EmptyTable == [i \in AddrIds |-> NoRow]

\* uuid4 primary keys never collide: the next unused key.
FreshAddr(db) ==
    IF \A i \in AddrIds : db[i].exists THEN None
    ELSE CHOOSE i \in AddrIds : ~db[i].exists /\ \A j \in AddrIds : j < i => db[j].exists

\* ------------------------------------------------------------------ session
\* AsyncSessionLocal(expire_on_commit=False, autoflush=False): the identity
\* map keeps each loaded object (obj) and the column values it was loaded
\* with (snap); nothing reaches the table before commit.
EmptySession == [loaded |-> {}, obj |-> EmptyTable, snap |-> EmptyTable]

\* A SELECT returning rows `ids`: objects already in the identity map keep
\* their in-memory attributes, the others are loaded from the table.
Load(db, s, ids) ==
    [loaded |-> s.loaded \cup ids,
     obj    |-> [i \in AddrIds |-> IF i \in ids \ s.loaded THEN db[i] ELSE s.obj[i]],
     snap   |-> [i \in AddrIds |-> IF i \in ids \ s.loaded THEN db[i] ELSE s.snap[i]]]

\* session.add(new object)
AddNew(s, id, row) ==
    [loaded |-> s.loaded \cup {id},
     obj    |-> [s.obj EXCEPT ![id] = row],
     snap   |-> [s.snap EXCEPT ![id] = NoRow]]

\* The flush of session.commit(): an UPDATE (or INSERT) carrying exactly the
\* columns whose in-memory value differs from the loaded one.
FlushRow(dbrow, snaprow, objrow) ==
    [exists     |-> IF objrow.exists # snaprow.exists THEN objrow.exists ELSE dbrow.exists,
     owner      |-> IF objrow.owner # snaprow.owner THEN objrow.owner ELSE dbrow.owner,
     is_default |-> IF objrow.is_default # snaprow.is_default
                    THEN objrow.is_default ELSE dbrow.is_default,
     deleted    |-> IF objrow.deleted # snaprow.deleted THEN objrow.deleted ELSE dbrow.deleted]

Commit(db, s) ==
    [i \in AddrIds |-> IF i \in s.loaded THEN FlushRow(db[i], s.snap[i], s.obj[i]) ELSE db[i]]

\* after commit the objects stay loaded (expire_on_commit=False)
Committed(s) == [s EXCEPT !.snap = s.obj]

\* session.refresh(obj)
Refresh(db, s, id) ==
    [loaded |-> s.loaded,
     obj    |-> [i \in AddrIds |-> IF i = id THEN db[id] ELSE s.obj[i]],
     snap   |-> [i \in AddrIds |-> IF i = id THEN db[id] ELSE s.snap[i]]]

\* an attribute assignment on loaded object id: the object becomes row
SetAttr(s, id, row) ==
    [loaded |-> s.loaded,
     obj    |-> [i \in AddrIds |-> IF i = id THEN row ELSE s.obj[i]],
     snap   |-> s.snap]

\* what the holder of the session sees of row i
View(db, s) == [i \in AddrIds |-> IF i \in s.loaded THEN s.obj[i] ELSE db[i]]

\* ------------------------------------------------------------------ BaseRepo
\* the table without the deleted_at filter
BaseQueryAllRows(db) == {i \in AddrIds : db[i].exists}

\* BaseRepo._base_query: rows whose deleted_at is null
BaseQuery(db) == {i \in AddrIds : db[i].exists /\ ~db[i].deleted}

\* BaseRepo.get: the primary key of the live row, or None
RepoGet(db, id) == IF id \in BaseQuery(db) THEN id ELSE None

Min(a, b) == IF a <= b THEN a ELSE b

\* BaseRepo.get_listing without filters: OFFSET skip LIMIT limit over the base
\* query, which has no ORDER BY, so any selection of that many live rows may
\* come back.
get_listing(db, skip, limit) ==
    LET live == BaseQuery(db)
        k    == IF Cardinality(live) <= skip THEN 0 ELSE Min(limit, Cardinality(live) - skip)
    IN  {S \in SUBSET live : Cardinality(S) = k}

\* BaseRepo.get_count without filters: it states the deleted_at filter itself
get_count(db) == Cardinality({i \in AddrIds : db[i].exists /\ ~db[i].deleted})

\* ------------------------------------------------------------------ AddressRepo
get_by_owner(db, owner) ==
    {i \in AddrIds : db[i].exists /\ db[i].owner = owner /\ ~db[i].deleted}

\* AddressRepo.get_default: scalar_one_or_none raises MultipleResultsFound
\* when the owner has two live default rows
get_default(db, owner) ==
    LET found == {i \in AddrIds : db[i].exists /\ ~db[i].deleted
                                   /\ db[i].owner = owner /\ db[i].is_default}
    IN  IF Cardinality(found) > 1 THEN [raised |-> TRUE, ret |-> {}]
        ELSE [raised |-> FALSE, ret |-> found]

ClearDefaultInverted(db, s, owner) == Load(db, s, get_by_owner(db, owner))

ClearDefaultKeepsOne(db, s, owner) ==
    LET ids == get_by_owner(db, owner)
        s1  == Load(db, s, ids)
        dft == {i \in ids : s1.obj[i].is_default}
        fst == IF dft = {} THEN {} ELSE {CHOOSE i \in dft : \A j \in dft : i <= j}
    IN  [s1 EXCEPT !.obj = [i \in AddrIds |->
            IF i \in fst THEN [s1.obj[i] EXCEPT !.is_default = FALSE] ELSE s1.obj[i]]]

\* AddressRepo.clear_default: changes the loaded objects, does not commit
clear_default(db, s, owner) ==
    LET ids == get_by_owner(db, owner)
        s1  == Load(db, s, ids)
    IN  [s1 EXCEPT !.obj = [i \in AddrIds |->
            IF i \in ids /\ s1.obj[i].is_default
            THEN [s1.obj[i] EXCEPT !.is_default = FALSE] ELSE s1.obj[i]]]

\* AddressRepo.create_address: insert and commit
repo_create_address(db, s, owner, is_default) ==
    LET id == FreshAddr(db)
        s1 == AddNew(s, id, NewAddress(owner, is_default))
        db1 == Commit(db, s1)
    IN  [db |-> db1, s |-> Refresh(db1, Committed(s1), id), id |-> id]

\* AddressRepo.set_default: clear_default, load the target by primary key
\* alone, set its flag, commit.  A target that BaseRepo.get does not find is
\* None, and `address.is_default = True` raises AttributeError before the
\* commit.
repo_set_default(db, s, address_id, owner) ==
    LET s1 == clear_default(db, s, owner)
        a  == RepoGet(db, address_id)
    IN  IF a = None
        THEN [db |-> db, s |-> s1, raised |-> TRUE]
        ELSE LET s2 == Load(db, s1, {a})
                 s3 == SetAttr(s2, a, [s2.obj[a] EXCEPT !.is_default = TRUE])
                 db1 == Commit(db, s3)
             IN  [db |-> db1, s |-> Refresh(db1, Committed(s3), a), raised |-> FALSE]

\* update without the deleted_at check
UpdateIgnoresDeleted(db, s, id, in_default) ==
    LET s1 == Load(db, s, {id})
        s2 == IF in_default = "unset" THEN s1
              ELSE SetAttr(s1, id, [s1.obj[id] EXCEPT !.is_default = (in_default = "true")])
        db1 == Commit(db, s2)
    IN  [db |-> db1, s |-> Refresh(db1, Committed(s2), id), outcome |-> "ok"]

\* update with model_dump() in place of model_dump(exclude_unset=True): a
\* body without is_default carries the schema's default, False
UpdateDumpsAllFields(db, s, id, in_default) ==
    LET s1 == Load(db, s, {id})
    IN  IF s1.obj[id].deleted
        THEN [db |-> db, s |-> s1, outcome |-> "NotFound"]
        ELSE LET s2 == SetAttr(s1, id, [s1.obj[id] EXCEPT !.is_default = (in_default = "true")])
                 db1 == Commit(db, s2)
             IN  [db |-> db1, s |-> Refresh(db1, Committed(s2), id), outcome |-> "ok"]

\* BaseRepo.update on an address: obj_in.model_dump(exclude_unset=True) holds
\* is_default only when the request body gave it ("unset" otherwise).
repo_update(db, s, id, in_default) ==
    LET s1 == Load(db, s, {id})
    IN  IF s1.obj[id].deleted
        THEN [db |-> db, s |-> s1, outcome |-> "NotFound"]
        ELSE LET s2 == IF in_default = "unset" THEN s1
                       ELSE SetAttr(s1, id, [s1.obj[id] EXCEPT !.is_default = (in_default = "true")])
                 db1 == Commit(db, s2)
             IN  [db |-> db1, s |-> Refresh(db1, Committed(s2), id), outcome |-> "ok"]

\* soft_delete that also takes the default flag off the row
SoftDeleteClearsDefault(db, s, id) ==
    LET a == RepoGet(db, id)
    IN  IF a = None
        THEN [db |-> db, s |-> s, outcome |-> "NotFound"]
        ELSE LET s1 == Load(db, s, {a})
                 s2 == SetAttr(s1, a, [s1.obj[a] EXCEPT !.deleted = TRUE,
                                                        !.is_default = FALSE])
             IN  [db |-> Commit(db, s2), s |-> Committed(s2), outcome |-> "ok"]

\* BaseRepo.soft_delete
repo_soft_delete(db, s, id) ==
    LET a == RepoGet(db, id)
    IN  IF a = None
        THEN [db |-> db, s |-> s, outcome |-> "NotFound"]
        ELSE LET s1 == Load(db, s, {a})
                 s2 == SetAttr(s1, a, [s1.obj[a] EXCEPT !.deleted = TRUE])
             IN  [db |-> Commit(db, s2), s |-> Committed(s2), outcome |-> "ok"]

\* session.delete(obj) followed by the flush: the object leaves the session
Expunge(s, id) ==
    [loaded |-> s.loaded \ {id},
     obj    |-> [i \in AddrIds |-> IF i = id THEN NoRow ELSE s.obj[i]],
     snap   |-> [i \in AddrIds |-> IF i = id THEN NoRow ELSE s.snap[i]]]

\* delete that looks the row up by primary key alone
DeleteByPrimaryKey(db, s, id) ==
    IF id \notin BaseQueryAllRows(db)
    THEN [db |-> db, s |-> s, ret |-> FALSE]
    ELSE LET db1 == Commit(db, s)
         IN  [db |-> [i \in AddrIds |-> IF i = id THEN NoRow ELSE db1[i]],
              s |-> Expunge(Committed(s), id), ret |-> TRUE]

\* BaseRepo.delete (hard delete): get, then session.delete and commit
repo_delete(db, s, id) ==
    LET a == RepoGet(db, id)
    IN  IF a = None
        THEN [db |-> db, s |-> s, ret |-> FALSE]
        ELSE LET db1 == Commit(db, s)
             IN  [db |-> [i \in AddrIds |-> IF i = a THEN NoRow ELSE db1[i]],
                  s |-> Expunge(Committed(s), a), ret |-> TRUE]

\* ------------------------------------------------------------------ AddressService
\* Each service call below is one request: it runs on a session of its own
\* (get_async_session) that is closed, uncommitted changes dropped, at the end.
Response(db, outcome, ret) == [db |-> db, outcome |-> outcome, ret |-> ret]

svc_create_address(db, owner, is_default) ==
    LET r == repo_create_address(db, EmptySession, owner, is_default)
    IN  Response(r.db, "ok", {r.id})

GetAddressNoOwnerCheck(db, address_id, owner) ==
    LET a == RepoGet(db, address_id)
    IN  IF a = None THEN Response(db, "NotFound", {}) ELSE Response(db, "ok", {a})

svc_get_address(db, address_id, owner) ==
    LET a == RepoGet(db, address_id)
    IN  IF a = None \/ db[address_id].owner # owner
        THEN Response(db, "NotFound", {})
        ELSE Response(db, "ok", {a})

svc_list_user_addresses(db, owner) == Response(db, "ok", get_by_owner(db, owner))

UpdateAddressNeverClears(db, address_id, owner, in_default) ==
    LET a == RepoGet(db, address_id)
    IN  IF a = None \/ db[address_id].owner # owner
        THEN Response(db, "NotFound", {})
        ELSE LET r == repo_update(db, Load(db, EmptySession, {a}), a, in_default)
             IN  Response(r.db, r.outcome, IF r.outcome = "ok" THEN {a} ELSE {})

svc_update_address(db, address_id, owner, in_default) ==
    LET a == RepoGet(db, address_id)
    IN  IF a = None \/ db[address_id].owner # owner
        THEN Response(db, "NotFound", {})
        ELSE LET s0 == Load(db, EmptySession, {a})
                 s1 == IF in_default = "true" THEN clear_default(db, s0, owner) ELSE s0
                 r  == repo_update(db, s1, a, in_default)
             IN  Response(r.db, r.outcome, IF r.outcome = "ok" THEN {a} ELSE {})

\* set_default over a clear_default that commits its own changes
SetDefaultClearCommits(db, address_id, owner) ==
    LET s1  == clear_default(db, EmptySession, owner)
        db1 == Commit(db, s1)
        r   == repo_set_default(db1, Committed(s1), address_id, owner)
    IN  IF r.raised THEN Response(db1, "ServerError", {})
        ELSE Response(r.db, "ok", {address_id})

svc_set_default(db, address_id, owner) ==
    LET r == repo_set_default(db, EmptySession, address_id, owner)
    IN  IF r.raised THEN Response(db, "ServerError", {})
        ELSE Response(r.db, "ok", {address_id})

svc_delete_address(db, address_id, owner) ==
    LET g == svc_get_address(db, address_id, owner)
    IN  IF g.outcome # "ok" THEN Response(db, g.outcome, {})
        ELSE LET r == repo_soft_delete(db, EmptySession, address_id)
             IN  Response(r.db, r.outcome, {})

\* ------------------------------------------------------------------ requests
\* The address routes (api/routes/address.py), one request at a time; the
\* caller is the authenticated current_user.
DefaultInputs == {"unset", "true", "false"}

Record(op, caller, aid, inp, r) ==
    /\ last' = [op |-> op, caller |-> caller, aid |-> aid, inp |-> inp,
                outcome |-> r.outcome, ret |-> r.ret]
    /\ pre' = addrs
    /\ addrs' = r.db
    /\ UNCHANGED <<repoVars, concVars, guardVars, userVars>>

CreateAddress(u, d) ==
    /\ FreshAddr(addrs) # None
    /\ Record("create", u, None, IF d THEN "true" ELSE "false",
              svc_create_address(addrs, u, d))

GetAddress(u, a) == Record("get", u, a, "unset", svc_get_address(addrs, a, u))

ListUserAddresses(u) == Record("list", u, None, "unset", svc_list_user_addresses(addrs, u))

UpdateAddress(u, a, d) == Record("update", u, a, d, svc_update_address(addrs, a, u, d))

DeleteAddress(u, a) == Record("delete", u, a, "unset", svc_delete_address(addrs, a, u))

SetDefault(u, a) == Record("set_default", u, a, "unset", svc_set_default(addrs, a, u))

\* ------------------------------------------------------------------ users
\* User (models.py): email, hashed_password, role, is_active, is_verified,
\* deleted_at;
\* UserRole is the closed set of roles.
Roles == {"customer", "staff", "manager", "admin"}

\* e-mail addresses: as many as there can be rows
Emails == 1..MaxUser

\* A password is its first 72 bytes (head) and what follows them (tail): a
\* body of 40 characters can encode to more than 72 bytes.
Passwords == {[head |-> "p", tail |-> ""], [head |-> "q", tail |-> ""],
              [head |-> "p", tail |-> "x"]}

\* a hash that does not depend on the password
HashOfNothing(password) == [digest |-> "p"]

\* get_password_hash: bcrypt of the first 72 bytes.  The salt is left out: no
\* code compares two hashes, they are only verified against.
get_password_hash(password) == [digest |-> password.head]

NoHash == [digest |-> ""]

\* verify_password: bcrypt.checkpw on the first 72 bytes
verify_password(password, hashed) == hashed.digest = password.head

NoUser == [exists |-> FALSE, email |-> None, hash |-> NoHash, role |-> "customer",
           is_active |-> FALSE, is_verified |-> FALSE, deleted |-> FALSE]

NewUser(email, hash, role, is_active) ==
    [exists |-> TRUE, email |-> email, hash |-> hash, role |-> role,
     is_active |-> is_active, is_verified |-> FALSE, deleted |-> FALSE]

\* init_db: the administrator account (settings.ADMIN, settings.ADMIN_PASSWORD)
\* exists before the first request
AdminId == 1
AdminEmail == 1
AdminPassword == [head |-> "p", tail |-> ""]
SeededAdmin == NewUser(AdminEmail, get_password_hash(AdminPassword), "admin", TRUE)

FreshUser(tbl) ==
    IF \A u \in UserIds : tbl[u].exists THEN None
    ELSE CHOOSE u \in UserIds : ~tbl[u].exists /\ \A v \in UserIds : v < u => tbl[v].exists

\* BaseRepo.get on users: the live row, or None
UserGet(tbl, id) == IF id \in UserIds /\ tbl[id].exists /\ ~tbl[id].deleted THEN id ELSE None

\* UserRepo.get_user_by_email: the live row with that e-mail, or None
get_user_by_email(tbl, email) ==
    LET found == {u \in UserIds : tbl[u].exists /\ tbl[u].email = email /\ ~tbl[u].deleted}
    IN  IF found = {} THEN None ELSE CHOOSE u \in found : TRUE

NoUniqueIndex(tbl, id, email) == FALSE

\* Field(unique=True) on UserBase.email: the unique index of the users table
\* spans every row, soft-deleted ones included.  TRUE when storing `email` in
\* row `id` would violate it.
UniqueViolation(tbl, id, email) ==
    \E u \in UserIds \ {id} : tbl[u].exists /\ tbl[u].email = email

\* an e-mail no row holds (a request that brings a new address)
FreshEmail(tbl) ==
    CHOOSE e \in Emails : /\ ~UniqueViolation(tbl, None, e)
                          /\ \A f \in Emails : f < e => UniqueViolation(tbl, None, f)

\* ------------------------------------------------------------------ authorization guard
\* A request carries no bearer token, one that jwt.decode rejects (signature,
\* expiry, payload), or one that decodes to the subject `sub`.
NoToken == [kind |-> "none", sub |-> None]
BadToken == [kind |-> "bad", sub |-> None]
ValidToken(u) == [kind |-> "valid", sub |-> u]
Tokens == {NoToken, BadToken} \cup {ValidToken(u) : u \in UserIds}

Denied(status, detail) == [status |-> status, detail |-> detail, user |-> None]
Granted(u) == [status |-> "pass", detail |-> "", user |-> u]

GetCurrentUserActiveFirst(tbl, token) ==
    IF token.kind = "none" THEN Denied("Unauthorized", "Not authenticated")
    ELSE IF token.kind = "bad" THEN Denied("Forbidden", "Could not validate credentials")
    ELSE IF ~tbl[token.sub].is_active THEN Denied("BadRequest", "Inactive user")
    ELSE IF ~tbl[token.sub].exists THEN Denied("NotFound", "User not found")
    ELSE Granted(token.sub)

\* OAuth2PasswordBearer, then get_current_user: session.get(User, sub) is a
\* lookup by primary key with no deleted_at filter.
get_current_user(tbl, token) ==
    IF token.kind = "none" THEN Denied("Unauthorized", "Not authenticated")
    ELSE IF token.kind = "bad" THEN Denied("Forbidden", "Could not validate credentials")
    ELSE IF ~tbl[token.sub].exists THEN Denied("NotFound", "User not found")
    ELSE IF ~tbl[token.sub].is_active THEN Denied("BadRequest", "Inactive user")
    ELSE Granted(token.sub)

RequireRolesAnyRole(tbl, token, allowed) == get_current_user(tbl, token)

\* require_roles(*allowed_roles) on top of get_current_user
require_roles(tbl, token, allowed) ==
    LET g == get_current_user(tbl, token)
    IN  IF g.status # "pass" THEN g
        ELSE IF tbl[g.user].role \notin allowed
             THEN Denied("Forbidden", "Not enough permissions")
             ELSE g

\* the dependency each route declares: CurrentUser, CurrentAdmin,
\* CurrentAdminOrManager
Allowed(ep) ==
    IF ep \in {"admin_create_user", "admin_update_user", "admin_delete_user"} THEN {"admin"}
    ELSE IF ep = "list_users" THEN {"admin", "manager"}
    ELSE Roles

\* ------------------------------------------------------------------ UserService
\* stamped: the rows whose updated_at the call assigned and committed
UResponse(tbl, status) == [users |-> tbl, status |-> status, stamped |-> {}]

UStamped(tbl, status, id) == [users |-> tbl, status |-> status, stamped |-> {id}]

\* BaseRepo.soft_delete on users
user_soft_delete(tbl, id) ==
    IF UserGet(tbl, id) = None THEN UResponse(tbl, "NotFound")
    ELSE UResponse([tbl EXCEPT ![id].deleted = TRUE], "ok")

\* create_user over a table without the unique index on email
CreateUserNoIndex(tbl, email, password, role, is_active) ==
    UResponse([tbl EXCEPT ![FreshUser(tbl)] =
                   NewUser(email, get_password_hash(password), role, is_active)], "ok")

\* UserRepo.create_user: hash the password, INSERT, commit.  The commit raises
\* IntegrityError (an unhandled exception: HTTP 500) when the unique index on
\* email rejects the row.
repo_create_user(tbl, email, password, role, is_active) ==
    IF UniqueViolation(tbl, None, email) THEN UResponse(tbl, "ServerError")
    ELSE UResponse([tbl EXCEPT ![FreshUser(tbl)] =
                        NewUser(email, get_password_hash(password), role, is_active)], "ok")

\* UserService.create_user; "Conflict" is the 400 "A user with this email
\* already exists"
svc_create_user(tbl, email, password, role, is_active) ==
    IF get_user_by_email(tbl, email) # None THEN UResponse(tbl, "Conflict")
    ELSE repo_create_user(tbl, email, password, role, is_active)

\* UserService.update_user and BaseRepo.update: partial holds the fields the
\* body set (model_dump(exclude_unset=True)); updated_at is assigned, then the
\* commit, which the unique index on email can reject.
svc_update_user(tbl, id, partial) ==
    IF UserGet(tbl, id) = None THEN UResponse(tbl, "NotFound")
    ELSE IF partial.email # None /\ UniqueViolation(tbl, id, partial.email)
         THEN UResponse(tbl, "ServerError")
    ELSE UStamped([tbl EXCEPT ![id] =
            [@ EXCEPT !.email = IF partial.email = None THEN @ ELSE partial.email,
                      !.role = IF partial.role = "unset" THEN @ ELSE partial.role,
                      !.is_active = IF partial.is_active = "unset" THEN @
                                    ELSE (partial.is_active = "true"),
                      !.is_verified = IF partial.is_verified = "unset" THEN @
                                      ELSE (partial.is_verified = "true")]], "ok", id)

\* UserService.change_password and UserRepo.update_password on the User
\* object the guard returned (the row with that primary key)
svc_change_password(tbl, id, old_password, new_password) ==
    IF ~verify_password(old_password, tbl[id].hash) THEN UResponse(tbl, "BadRequest")
    ELSE IF verify_password(new_password, tbl[id].hash) THEN UResponse(tbl, "BadRequest")
    ELSE UStamped([tbl EXCEPT ![id].hash = get_password_hash(new_password)], "ok", id)

\* log_in with a lookup by e-mail that does not filter on deleted_at
LogInDeletedToo(tbl, email, password) ==
    LET found == {u \in UserIds : tbl[u].exists /\ tbl[u].email = email}
        u     == IF found = {} THEN None ELSE CHOOSE v \in found : TRUE
    IN  IF u = None \/ ~verify_password(password, tbl[u].hash)
        THEN UResponse(tbl, "Unauthorized")
        ELSE IF ~tbl[u].is_active THEN UResponse(tbl, "BadRequest")
        ELSE UResponse(tbl, "ok")

\* POST /auth/login/access-token
log_in(tbl, email, password) ==
    LET u == get_user_by_email(tbl, email)
    IN  IF u = None \/ ~verify_password(password, tbl[u].hash)
        THEN UResponse(tbl, "Unauthorized")
        ELSE IF ~tbl[u].is_active THEN UResponse(tbl, "BadRequest")
        ELSE UResponse(tbl, "ok")

\* UserFilters: a query parameter that is not given is None ("unset")
NoFilters == [is_active |-> "unset", is_verified |-> "unset", role |-> "unset"]

\* requests that filter on is_verified alone or on is_active and role
UserFilters ==
    {f \in [is_active : {"unset", "true", "false"},
            is_verified : {"unset", "true", "false"},
            role : {"unset", "customer", "manager"}] :
        f.is_verified = "unset" \/ (f.is_active = "unset" /\ f.role = "unset")}

\* a filter dictionary that keeps only truthy values: is_active=false is lost
FilterDictTruthy(filters) ==
    {k \in {"is_active", "is_verified", "role"} : filters[k] \notin {"unset", "false"}}

\* list_users: {k: v for k, v in filter_dict.items() if v is not None}
filter_dict(filters) ==
    {k \in {"is_active", "is_verified", "role"} : filters[k] # "unset"}

\* get_listing / get_count: query.where(getattr(self.model, key) == value)
ColumnEquals(row, key, value) ==
    IF key = "role" THEN row.role = value ELSE row[key] = (value = "true")

\* the rows both queries select: deleted_at IS NULL and every kept filter
Selected(tbl, keys, filters) ==
    {u \in UserIds : /\ tbl[u].exists
                      /\ ~tbl[u].deleted
                      /\ \A k \in keys : ColumnEquals(tbl[u], k, filters[k])}

\* BaseRepo.get_listing on users: OFFSET skip LIMIT limit, no ORDER BY
user_get_listing(tbl, skip, limit, keys, filters) ==
    LET sel == Selected(tbl, keys, filters)
        k   == IF Cardinality(sel) <= skip THEN 0 ELSE Min(limit, Cardinality(sel) - skip)
    IN  {S \in SUBSET sel : Cardinality(S) = k}

\* BaseRepo.get_count on users
user_get_count(tbl, keys, filters) == Cardinality(Selected(tbl, keys, filters))

\* UserService.list_users and UserRepo.list_users: the pages it may answer
svc_list_users(tbl, filters, page, page_size) ==
    LET skip  == (page - 1) * page_size
        keys  == filter_dict(filters)
        total == user_get_count(tbl, keys, filters)
    IN  {[total |-> total, total_pages |-> (total + page_size - 1) \div page_size,
          ret |-> S] : S \in user_get_listing(tbl, skip, page_size, keys, filters)}

svc_get_user_by_id(tbl, id) ==
    IF UserGet(tbl, id) = None THEN UResponse(tbl, "NotFound") ELSE UResponse(tbl, "ok")

\* delete_user_me without the role check
DeleteMeAnyRole(tbl, id) == user_soft_delete(tbl, id)

svc_delete_user_me(tbl, id) ==
    IF tbl[id].role = "admin" THEN UResponse(tbl, "Forbidden")
    ELSE user_soft_delete(tbl, id)

\* delete_user without the check that the target is the acting admin
DeleteUserNoSelfCheck(tbl, user_id, admin_id) ==
    IF UserGet(tbl, user_id) = None THEN UResponse(tbl, "NotFound")
    ELSE user_soft_delete(tbl, user_id)

svc_delete_user(tbl, user_id, admin_id) ==
    IF user_id = admin_id THEN UResponse(tbl, "Forbidden")
    ELSE IF UserGet(tbl, user_id) = None THEN UResponse(tbl, "NotFound")
    ELSE user_soft_delete(tbl, user_id)

\* a field the body does not set is "unset" (None for the e-mail)
NoPartial == [email |-> None, role |-> "unset", is_active |-> "unset",
              is_verified |-> "unset"]

\* bodies of PATCH /users/{id}: one field of UserUpdate set at a time
UserPartials ==
    {[NoPartial EXCEPT !.role = r] : r \in Roles}
        \cup {[NoPartial EXCEPT !.is_active = a] : a \in {"true", "false"}}

\* bodies that set the role
RolePartials == {[NoPartial EXCEPT !.role = r] : r \in Roles}

\* bodies that set the active flag
ActivePartials == {[NoPartial EXCEPT !.is_active = a] : a \in {"true", "false"}}

\* bodies that set the verified flag
VerifiedPartials == {[NoPartial EXCEPT !.is_verified = a] : a \in {"true", "false"}}

\* bodies that set the e-mail (UserUpdate, UserUpdateMe)
EmailPartials == {[NoPartial EXCEPT !.email = e] : e \in Emails}

\* bodies of PATCH /users/me read as UserUpdate, role included
UpdateMeBodiesWithRole == {NoPartial, [NoPartial EXCEPT !.role = "admin"]}

\* bodies of PATCH /users/me (UserUpdateMe: full_name and email only; any
\* other key of the JSON body is dropped by the schema)
UpdateMeBodies == {NoPartial, [NoPartial EXCEPT !.email = MaxUser]}

\* bodies an administrator sends to move a user off the defaults
FlagPartials ==
    {[NoPartial EXCEPT !.role = "manager", !.is_verified = "true"],
     [NoPartial EXCEPT !.is_active = "false"]}

\* the password of a request whose password plays no part
AnyPassword == CHOOSE p \in Passwords : TRUE

\* ------------------------------------------------------------------ guarded requests
\* route: "protected" or "public"; allowed: the roles the route's dependency
\* admits; subrow: the row the token's subject had when the request arrived;
\* changed: whether the request changed the users table
NoGuardedRequest ==
    [route |-> "none", allowed |-> {}, token |-> NoToken, status |-> "pass",
     detail |-> "", ran |-> FALSE, subrow |-> NoUser, changed |-> FALSE]

SubjectRow(tbl, token) == IF token.kind = "valid" THEN tbl[token.sub] ELSE NoUser

\* A request to a protected route: the dependencies run first, the route body
\* (run) only when they return a user.
Guarded(ep, token, tbl) ==
    LET g == require_roles(users, token, Allowed(ep))
    IN  /\ users' = IF g.status = "pass" THEN tbl ELSE users
        /\ greq' = [route |-> "protected", allowed |-> Allowed(ep), token |-> token,
                    status |-> g.status, detail |-> g.detail,
                    ran |-> (g.status = "pass"),
                    subrow |-> SubjectRow(users, token),
                    changed |-> (users' # users)]

Caller(token) == get_current_user(users, token).user

\* POST /users/signup and /auth/register: no dependency on the caller
Register ==
    /\ FreshUser(users) # None
    /\ users' = svc_create_user(users, FreshEmail(users), AnyPassword, "customer", TRUE).users
    /\ greq' = [NoGuardedRequest EXCEPT !.route = "public", !.ran = TRUE, !.changed = TRUE]
    /\ UNCHANGED <<addrs, histVars, repoVars, concVars, userVars>>

AdminCreateUser(token, role, active) ==
    /\ FreshUser(users) # None
    /\ LET r == svc_create_user(users, FreshEmail(users), AnyPassword, role, active)
       IN  Guarded("admin_create_user", token, r.users)
    /\ UNCHANGED <<addrs, histVars, repoVars, concVars, userVars>>

AdminUpdateUser(token, target, partial) ==
    /\ LET r == svc_update_user(users, target, partial)
       IN  Guarded("admin_update_user", token, r.users)
    /\ UNCHANGED <<addrs, histVars, repoVars, concVars, userVars>>

AdminDeleteUser(token, target) ==
    /\ LET r == svc_delete_user(users, target, Caller(token))
       IN  Guarded("admin_delete_user", token, r.users)
    /\ UNCHANGED <<addrs, histVars, repoVars, concVars, userVars>>

ListUsers(token) ==
    /\ Guarded("list_users", token, users)
    /\ UNCHANGED <<addrs, histVars, repoVars, concVars, userVars>>

GetMe(token) ==
    /\ LET r == svc_get_user_by_id(users, Caller(token))
       IN  Guarded("get_me", token, r.users)
    /\ UNCHANGED <<addrs, histVars, repoVars, concVars, userVars>>

UpdateMe(token) ==
    /\ LET r == svc_update_user(users, Caller(token), NoPartial)
       IN  Guarded("update_me", token, r.users)
    /\ UNCHANGED <<addrs, histVars, repoVars, concVars, userVars>>

DeleteMe(token) ==
    /\ LET r == svc_delete_user_me(users, Caller(token))
       IN  Guarded("delete_me", token, r.users)
    /\ UNCHANGED <<addrs, histVars, repoVars, concVars, userVars>>

\* POST /auth/refresh: a new token for current_user.id
RefreshToken(token) ==
    /\ Guarded("refresh", token, users)
    /\ UNCHANGED <<addrs, histVars, repoVars, concVars, userVars>>


\* two requests in flight at once, each with a session of its own
Tasks == {"r1", "r2"}

IdleTask == [pc |-> "idle", caller |-> None, aid |-> None, s |-> EmptySession]

\* GET /users/: Query(1, ge=1) pages and Query(20, ge=1, le=100) page sizes
Pages == {1, 2}
PageSizes == {1, 2}

\* the arguments and the answer of the last list_users
NoListing == [filters |-> NoFilters, page |-> 1, page_size |-> 1,
              total |-> 0, total_pages |-> 0, ret |-> {}]

\* op, the authenticated caller, the user id or e-mail the request names, the
\* passwords it carries, and the response
NoUserRequest == [op |-> "none", caller |-> None, target |-> None, email |-> None,
                  old |-> AnyPassword, new |-> AnyPassword,
                  status |-> "ok", stamped |-> {}, listing |-> NoListing]

\* get_listing(skip=0, limit=100): page offsets and sizes
Skips == {0, 1}
Limits == {1, MaxAddr}

NoRepoCall == [op |-> "none", owner |-> None, aid |-> None, raised |-> FALSE,
               partial |-> "unset", ret |-> {}, n |-> 0, wrote |-> FALSE,
               stamped |-> {}]

NoRequest == [op |-> "none", caller |-> None, aid |-> None, inp |-> "unset",
              outcome |-> "ok", ret |-> {}]

\* the users table of a new database, and after init_db
NoUsers == [u \in UserIds |-> NoUser]
SeededUsers == [u \in UserIds |-> IF u = AdminId THEN SeededAdmin ELSE NoUser]

InitRest ==
    /\ addrs = EmptyTable
    /\ last = NoRequest
    /\ pre = EmptyTable
    /\ sess = EmptySession
    /\ rlast = NoRepoCall
    /\ rpre = EmptyTable
    /\ task = [t \in Tasks |-> IdleTask]
    /\ overlap = FALSE
    /\ greq = NoGuardedRequest
    /\ ulast = NoUserRequest
    /\ upre = NoUsers

Init == InitRest /\ users = SeededUsers

\* init_db is run by the deployment (tests/conftest.py), not by the
\* application: the first request may also meet a users table without the
\* administrator
InitAccounts == InitRest /\ users \in {NoUsers, SeededUsers}

Next ==
    \/ \E u \in UserIds, d \in BOOLEAN : CreateAddress(u, d)
    \/ \E u \in UserIds, a \in AddrIds : GetAddress(u, a)
    \/ \E u \in UserIds : ListUserAddresses(u)
    \/ \E u \in UserIds, a \in AddrIds, d \in DefaultInputs : UpdateAddress(u, a, d)
    \/ \E u \in UserIds, a \in AddrIds : DeleteAddress(u, a)
    \/ \E u \in UserIds, a \in AddrIds : SetDefault(u, a)

Spec == Init /\ [][Next]_vars

NextGuard ==
    \/ Register
    \/ \E k \in Tokens, r \in Roles, a \in BOOLEAN : AdminCreateUser(k, r, a)
    \/ \E k \in Tokens, u \in UserIds, p \in UserPartials : AdminUpdateUser(k, u, p)
    \/ \E k \in Tokens, u \in UserIds : AdminDeleteUser(k, u)
    \/ \E k \in Tokens : ListUsers(k)
    \/ \E k \in Tokens : GetMe(k)
    \/ \E k \in Tokens : UpdateMe(k)
    \/ \E k \in Tokens : DeleteMe(k)
    \/ \E k \in Tokens : RefreshToken(k)

SpecGuard == Init /\ [][NextGuard]_vars

\* ------------------------------------------------------------------ user requests
\* The user and auth routes (api/routes/users.py, api/routes/auth.py), one
\* request at a time.  A request of caller u carries the valid token of u; the
\* route body runs when the route's dependency returns the user, otherwise the
\* dependency's answer is the response.
Authenticated(u, allowed, r) ==
    LET g == require_roles(users, ValidToken(u), allowed)
    IN  IF g.status = "pass" THEN r ELSE UResponse(users, g.status)

URecord(op, caller, target, email, old, new, r) ==
    /\ ulast' = [op |-> op, caller |-> caller, target |-> target, email |-> email,
                 old |-> old, new |-> new, status |-> r.status, stamped |-> r.stamped,
                 listing |-> NoListing]
    /\ upre' = users
    /\ users' = r.users
    /\ UNCHANGED <<addrs, histVars, repoVars, concVars, greq>>

\* POST /users/signup, POST /auth/register
URegister(email, password) ==
    /\ FreshUser(users) # None
    /\ URecord("create", None, None, email, AnyPassword, password,
               svc_create_user(users, email, password, "customer", TRUE))

\* POST /users/ (CurrentAdmin)
UAdminCreateUser(u, role, active) ==
    /\ FreshUser(users) # None
    /\ URecord("admin_create", u, None, FreshEmail(users), AnyPassword, AnyPassword,
               Authenticated(u, {"admin"},
                   svc_create_user(users, FreshEmail(users), AnyPassword, role, active)))

\* PATCH /users/me
UUpdateMe(u, partial) ==
    URecord("update", u, u, partial.email, AnyPassword, AnyPassword,
            Authenticated(u, Roles, svc_update_user(users, u, partial)))

\* PATCH /users/{user_id} (CurrentAdmin)
UAdminUpdateUser(u, target, partial) ==
    URecord("update", u, target, partial.email, AnyPassword, AnyPassword,
            Authenticated(u, {"admin"}, svc_update_user(users, target, partial)))

\* PATCH /users/me/password
UChangePassword(u, old, new) ==
    URecord("change_password", u, u, None, old, new,
            Authenticated(u, Roles, svc_change_password(users, u, old, new)))

\* DELETE /users/me
UDeleteMe(u) ==
    URecord("delete_me", u, u, None, AnyPassword, AnyPassword,
            Authenticated(u, Roles, svc_delete_user_me(users, u)))

\* DELETE /users/{user_id} (CurrentAdmin)
UAdminDeleteUser(u, target) ==
    URecord("delete", u, target, None, AnyPassword, AnyPassword,
            Authenticated(u, {"admin"}, svc_delete_user(users, target, u)))

\* the route with the lookup ahead of the 403
GetUserExistenceFirst(tbl, u, user_id) ==
    IF UserGet(tbl, user_id) = None THEN UResponse(tbl, "NotFound")
    ELSE IF u # user_id /\ tbl[u].role # "admin" THEN UResponse(tbl, "Forbidden")
    ELSE UResponse(tbl, "ok")

\* GET /users/{user_id}: the route itself answers 403 to a caller who is
\* neither the user asked for nor an admin, before the service is called
route_get_user_by_id(tbl, u, user_id) ==
    IF u # user_id /\ tbl[u].role # "admin" THEN UResponse(tbl, "Forbidden")
    ELSE svc_get_user_by_id(tbl, user_id)

UGetUserById(u, target) ==
    URecord("get", u, target, None, AnyPassword, AnyPassword,
            Authenticated(u, Roles, route_get_user_by_id(users, u, target)))

\* GET /users/ (CurrentAdminOrManager)
UListUsers(u, filters, page, page_size) ==
    LET g == require_roles(users, ValidToken(u), {"admin", "manager"})
    IN  \E a \in svc_list_users(users, filters, page, page_size) :
            /\ ulast' = [NoUserRequest EXCEPT
                            !.op = "list", !.caller = u,
                            !.status = IF g.status = "pass" THEN "ok" ELSE g.status,
                            !.listing = IF g.status # "pass" THEN NoListing
                                        ELSE [filters |-> filters, page |-> page,
                                              page_size |-> page_size, total |-> a.total,
                                              total_pages |-> a.total_pages, ret |-> a.ret]]
            /\ upre' = users
            /\ users' = users
            /\ UNCHANGED <<addrs, histVars, repoVars, concVars, greq>>

\* POST /auth/login/access-token
ULogin(email, password) ==
    URecord("login", None, None, email, AnyPassword, password,
            log_in(users, email, password))

\* accounts: e-mail addresses and passwords vary
NextAccounts ==
    \/ \E e \in Emails, p \in Passwords : URegister(e, p)
    \/ \E u \in UserIds, q \in EmailPartials : UUpdateMe(u, q)
    \/ \E u \in UserIds, t \in UserIds, q \in EmailPartials : UAdminUpdateUser(u, t, q)
    \/ \E u \in UserIds, o \in Passwords, n \in Passwords : UChangePassword(u, o, n)
    \/ \E u \in UserIds : UDeleteMe(u)
    \/ \E u \in UserIds, t \in UserIds : UAdminDeleteUser(u, t)
    \/ \E e \in Emails, p \in Passwords : ULogin(e, p)

SpecAccounts == InitAccounts /\ [][NextAccounts]_vars

\* logins against accounts that are registered, deactivated and deleted
NextLogin ==
    \/ \E e \in Emails, p \in Passwords : URegister(e, p)
    \/ \E u \in UserIds, t \in UserIds, q \in ActivePartials : UAdminUpdateUser(u, t, q)
    \/ \E u \in UserIds : UDeleteMe(u)
    \/ \E e \in Emails, p \in Passwords : ULogin(e, p)

SpecLogin == Init /\ [][NextLogin]_vars

\* pages of the user list over users of every role, active or not
NextListing ==
    \/ \E u \in UserIds, r \in Roles, a \in BOOLEAN : UAdminCreateUser(u, r, a)
    \/ \E u \in UserIds, t \in UserIds : UAdminDeleteUser(u, t)
    \/ \E u \in UserIds, f \in UserFilters, p \in Pages, n \in PageSizes :
          UListUsers(u, f, p, n)

SpecListing == Init /\ [][NextListing]_vars

\* POST /addresses/ behind its CurrentUser dependency
UCreateAddress(u, d) ==
    /\ require_roles(users, ValidToken(u), Roles).status = "pass"
    /\ CreateAddress(u, d)

\* what callers can do for themselves, among users whose role and flags an
\* administrator has set
NextSelfService ==
    \/ URegister(FreshEmail(users), AdminPassword)
    \/ \E u \in UserIds, q \in UpdateMeBodies : UUpdateMe(u, q)
    \/ \E u \in UserIds : UChangePassword(u, AdminPassword, [head |-> "q", tail |-> ""])
    \/ \E u \in UserIds : UDeleteMe(u)
    \/ \E u \in UserIds : get_count(addrs) = 0 /\ UCreateAddress(u, FALSE)
    \/ \E t \in UserIds \ {AdminId}, q \in FlagPartials : UAdminUpdateUser(AdminId, t, q)

SpecSelfService == Init /\ [][NextSelfService]_vars

\* users: roles and active flags vary
NextUsers ==
    \/ \E u \in UserIds, r \in Roles, a \in BOOLEAN : UAdminCreateUser(u, r, a)
    \/ \E u \in UserIds : UDeleteMe(u)
    \/ \E u \in UserIds, t \in UserIds : UAdminDeleteUser(u, t)
    \/ \E u \in UserIds, t \in UserIds : UGetUserById(u, t)
    \/ \E u \in UserIds, t \in UserIds, q \in RolePartials : UAdminUpdateUser(u, t, q)

SpecUsers == Init /\ [][NextUsers]_vars

\* ------------------------------------------------------------------ repository layer
\* AddressRepo driven directly by a caller that holds one session and commits
\* or closes it itself (as tests/repos/test_address_repo.py does).
RRecord(op, owner, aid, raised) ==
    /\ rlast' = [NoRepoCall EXCEPT !.op = op, !.owner = owner, !.aid = aid,
                                   !.raised = raised]
    /\ rpre' = View(addrs, sess)
    /\ UNCHANGED <<histVars, concVars, guardVars, userVars>>

\* a call that answers with rows (ret) or a number (n), or that may write:
\* wrote tells whether the table changed, stamped which rows had updated_at set
RResult(op, owner, aid, raised, partial, ret, n, stamped) ==
    /\ rlast' = [op |-> op, owner |-> owner, aid |-> aid, raised |-> raised,
                 partial |-> partial, ret |-> ret, n |-> n,
                 wrote |-> addrs' # addrs, stamped |-> stamped]
    /\ rpre' = View(addrs, sess)
    /\ UNCHANGED <<histVars, concVars, guardVars, userVars>>

RCreateAddress(u, d) ==
    /\ FreshAddr(addrs) # None
    /\ LET r == repo_create_address(addrs, sess, u, d)
       IN  addrs' = r.db /\ sess' = r.s /\ RRecord("create_address", u, r.id, FALSE)

RClearDefault(u) ==
    /\ sess' = clear_default(addrs, sess, u)
    /\ addrs' = addrs
    /\ RRecord("clear_default", u, None, FALSE)

RSetDefault(a, u) ==
    LET r == repo_set_default(addrs, sess, a, u)
    IN  addrs' = r.db /\ sess' = r.s /\ RRecord("set_default", u, a, r.raised)

RSoftDelete(a) ==
    LET r == repo_soft_delete(addrs, sess, a)
    IN  /\ addrs' = r.db
        /\ sess' = r.s
        /\ RResult("soft_delete", None, a, r.outcome # "ok", "unset", {}, 0, {})

\* BaseRepo.update(db_obj, obj_in): db_obj is an object the caller got from
\* this session
RUpdate(a, d) ==
    /\ a \in sess.loaded
    /\ LET r == repo_update(addrs, sess, a, d)
       IN  /\ addrs' = r.db
           /\ sess' = r.s
           /\ RResult("update", None, a, r.outcome # "ok", d, {}, 0,
                      IF r.outcome = "ok" THEN {a} ELSE {})

\* session.commit() by the caller; remembers whose clear_default it follows
RCommit ==
    /\ addrs' = Commit(addrs, sess)
    /\ sess' = Committed(sess)
    /\ RRecord("commit", IF rlast.op = "clear_default" THEN rlast.owner ELSE None,
               None, FALSE)

\* the session is closed (get_async_session exits): pending changes are dropped
RClose ==
    /\ sess # EmptySession
    /\ sess' = EmptySession
    /\ addrs' = addrs
    /\ RRecord("close", None, None, FALSE)

NextRepo ==
    \/ \E u \in UserIds, d \in BOOLEAN : RCreateAddress(u, d)
    \/ \E u \in UserIds : RClearDefault(u)
    \/ \E u \in UserIds, a \in AddrIds : RSetDefault(a, u)
    \/ \E a \in AddrIds : RSoftDelete(a)
    \/ RCommit
    \/ RClose

SpecRepo == Init /\ [][NextRepo]_vars

\* BaseRepo.update and soft_delete on objects the caller holds
NextStore ==
    \/ \E u \in UserIds, d \in BOOLEAN : RCreateAddress(u, d)
    \/ \E u \in UserIds : RClearDefault(u)
    \/ \E a \in AddrIds : RSoftDelete(a)
    \/ \E a \in AddrIds, d \in DefaultInputs : RUpdate(a, d)
    \/ RClose

SpecStore == Init /\ [][NextStore]_vars

\* ------------------------------------------------------------------ repository queries
\* The read side of BaseRepo and AddressRepo, each call on a session of its
\* own, as a request gets from get_async_session; the table is filled and
\* thinned by create_address and soft_delete.
QCreateAddress(u, d) ==
    /\ FreshAddr(addrs) # None
    /\ addrs' = repo_create_address(addrs, EmptySession, u, d).db
    /\ sess' = sess
    /\ RResult("create_address", u, None, FALSE, "unset", {}, 0, {})

QSoftDelete(a) ==
    LET r == repo_soft_delete(addrs, EmptySession, a)
    IN  /\ addrs' = r.db
        /\ sess' = sess
        /\ RResult("soft_delete", None, a, r.outcome # "ok", "unset", {}, 0, {})

QGet(a) ==
    /\ UNCHANGED <<addrs, sess>>
    /\ RResult("get", None, a, FALSE, "unset", {RepoGet(addrs, a)} \ {None}, 0, {})

QGetListing(skip, limit) ==
    \E ret \in get_listing(addrs, skip, limit) :
        /\ UNCHANGED <<addrs, sess>>
        /\ RResult("get_listing", None, None, FALSE, "unset", ret, 0, {})

QGetCount ==
    /\ UNCHANGED <<addrs, sess>>
    /\ RResult("get_count", None, None, FALSE, "unset", {}, get_count(addrs), {})

QGetByOwner(u) ==
    /\ UNCHANGED <<addrs, sess>>
    /\ RResult("get_by_owner", u, None, FALSE, "unset", get_by_owner(addrs, u), 0, {})

QGetDefault(u) ==
    LET r == get_default(addrs, u)
    IN  /\ UNCHANGED <<addrs, sess>>
        /\ RResult("get_default", u, None, r.raised, "unset", r.ret, 0, {})

NextQuery ==
    \/ \E u \in UserIds, d \in BOOLEAN : QCreateAddress(u, d)
    \/ \E a \in AddrIds : QSoftDelete(a)
    \/ \E a \in AddrIds : QGet(a)
    \/ \E k \in Skips, n \in Limits : QGetListing(k, n)
    \/ QGetCount
    \/ \E u \in UserIds : QGetByOwner(u)
    \/ \E u \in UserIds : QGetDefault(u)

SpecQuery == Init /\ [][NextQuery]_vars

\* BaseRepo.delete; the answer is kept in ret
QDelete(a) ==
    LET r == repo_delete(addrs, EmptySession, a)
    IN  /\ addrs' = r.db
        /\ sess' = sess
        /\ RResult("delete", None, a, FALSE, "unset", {r.ret}, 0, {})

\* hard deletion among live and soft-deleted rows
NextDelete ==
    \/ \E u \in UserIds, d \in BOOLEAN : QCreateAddress(u, d)
    \/ \E a \in AddrIds : QSoftDelete(a)
    \/ \E a \in AddrIds : QDelete(a)

SpecDelete == Init /\ [][NextDelete]_vars

\* soft deletion of addresses and of the users that own them
NextSoftDelete ==
    \/ \E u \in UserIds, d \in BOOLEAN : QCreateAddress(u, d)
    \/ \E a \in AddrIds : QSoftDelete(a)
    \/ UAdminCreateUser(AdminId, "customer", TRUE)
    \/ \E u \in UserIds : UDeleteMe(u)
    \/ \E t \in UserIds : UAdminDeleteUser(AdminId, t)

SpecSoftDelete == Init /\ [][NextSoftDelete]_vars


\* ------------------------------------------------------------------ concurrent set-default requests
\* POST /addresses/{id}/set-default handled by two tasks.  Every await on the
\* session is a point where the other task may run: the SELECT of
\* clear_default, the SELECT of BaseRepo.get, the commit.
InFlight(t) == task[t].pc \in {"cleared", "got"}

CCreateAddress(u, d) ==
    /\ FreshAddr(addrs) # None
    /\ addrs' = svc_create_address(addrs, u, d).db
    /\ UNCHANGED <<histVars, repoVars, concVars, guardVars, userVars>>

\* clear_default: get_by_owner, then the loop over the loaded objects
TClear(t, u, a) ==
    /\ task[t].pc = "idle"
    /\ task' = [task EXCEPT ![t] = [pc |-> "cleared", caller |-> u, aid |-> a,
                                    s |-> clear_default(addrs, EmptySession, u)]]
    /\ overlap' = (overlap \/ \E o \in Tasks \ {t} : InFlight(o))
    /\ UNCHANGED <<addrs, histVars, repoVars, guardVars, userVars>>

\* address = await self.get(address_id); address.is_default = True
TGet(t) ==
    /\ task[t].pc = "cleared"
    /\ LET a  == RepoGet(addrs, task[t].aid)
           s1 == Load(addrs, task[t].s, {a})
       IN  task' = [task EXCEPT ![t] =
              IF a = None
              THEN [task[t] EXCEPT !.pc = "raised", !.s = EmptySession]
              ELSE [task[t] EXCEPT !.pc = "got",
                                   !.s = SetAttr(s1, a, [s1.obj[a] EXCEPT !.is_default = TRUE])]]
    /\ UNCHANGED <<addrs, histVars, repoVars, overlap, guardVars, userVars>>

\* await self.session.commit(); the response is sent and the session closed
TCommit(t) ==
    /\ task[t].pc = "got"
    /\ addrs' = Commit(addrs, task[t].s)
    /\ task' = [task EXCEPT ![t] = [task[t] EXCEPT !.pc = "done", !.s = EmptySession]]
    /\ UNCHANGED <<histVars, repoVars, overlap, guardVars, userVars>>

\* both responses delivered: the next pair of requests may arrive
TReset ==
    /\ \A t \in Tasks : task[t].pc \in {"done", "raised"}
    /\ task' = [t \in Tasks |-> IdleTask]
    /\ overlap' = FALSE
    /\ UNCHANGED <<addrs, histVars, repoVars, guardVars, userVars>>

NextConc ==
    \/ \E u \in UserIds, d \in BOOLEAN : CCreateAddress(u, d)
    \/ \E t \in Tasks, u \in UserIds, a \in AddrIds : TClear(t, u, a)
    \/ \E t \in Tasks : TGet(t)
    \/ \E t \in Tasks : TCommit(t)
    \/ TReset

SpecConc == Init /\ [][NextConc]_vars

\* ------------------------------------------------------------------ helpers for the properties
Defaults(db, owner) == {i \in get_by_owner(db, owner) : db[i].is_default}

Live(db, i) == db[i].exists /\ ~db[i].deleted

\* the live users of tbl that hold e-mail e
LiveHolders(tbl, e) == {u \in UserIds : Live(tbl, u) /\ tbl[u].email = e}

\* ------------------------------------------------------------------ concurrent registrations
\* UserService.create_user handled by two tasks, each on a session of its
\* own.  The await of get_user_by_email and the await of the commit in
\* UserRepo.create_user are the points where the other task may run.
Looking(t) == task[t].pc = "looked"

\* user = await self.repo.get_user_by_email(user_in.email); a holder found is
\* the 400.  As many rows are free as there are lookups that may insert.
ULookup(t, e) ==
    /\ task[t].pc = "idle"
    /\ Cardinality({u \in UserIds : ~users[u].exists})
           > Cardinality({o \in Tasks : Looking(o)})
    /\ task' = [task EXCEPT ![t] =
          [pc |-> IF get_user_by_email(users, e) # None THEN "conflict" ELSE "looked",
           email |-> e]]
    /\ overlap' = (overlap \/ (get_user_by_email(users, e) = None
                                /\ \E o \in Tasks \ {t} : Looking(o) /\ task[o].email = e))
    /\ UNCHANGED <<addrs, histVars, repoVars, guardVars, userVars>>

\* user = await self.repo.create_user(user_in=user_in)
UInsert(t) ==
    /\ Looking(t)
    /\ LET r == repo_create_user(users, task[t].email, AnyPassword, "customer", TRUE)
       IN  /\ users' = r.users
           /\ task' = [task EXCEPT ![t] =
                 [@ EXCEPT !.pc = IF r.status = "ok" THEN "created" ELSE "error"]]
    /\ UNCHANGED <<addrs, histVars, repoVars, overlap, greq, userVars>>

\* both responses delivered: the next pair of requests may arrive
UReset ==
    /\ \A t \in Tasks : task[t].pc \in {"created", "error", "conflict"}
    /\ task' = [t \in Tasks |-> IdleTask]
    /\ overlap' = FALSE
    /\ UNCHANGED <<addrs, histVars, repoVars, guardVars, userVars>>

\* a user is soft-deleted between the steps of the two tasks
USoftDelete(u) ==
    /\ users' = user_soft_delete(users, u).users
    /\ UNCHANGED <<addrs, histVars, repoVars, concVars, greq, userVars>>

NextRegister ==
    \/ \E t \in Tasks, e \in Emails : ULookup(t, e)
    \/ \E t \in Tasks : UInsert(t)
    \/ UReset
    \/ \E u \in UserIds : USoftDelete(u)

SpecRegister == InitAccounts /\ [][NextRegister]_vars

\* ------------------------------------------------------------------ claims, address requests
\* C1: in every state reached by serialized createAddress, updateAddress,
\* setDefault and deleteAddress requests, each owner has at most one
\* non-deleted address with the default flag set.
C1_AtMostOneDefault ==
    \A u \in UserIds : Cardinality(Defaults(addrs, u)) <= 1

\* C2: after a successful serialized setDefault(X, owner), exactly one
\* non-deleted address of that owner has the default flag set, and it is X.
C2_SetDefaultExactlyTarget ==
    (last.op = "set_default" /\ last.outcome = "ok")
        => Defaults(addrs, last.caller) = {last.aid}

\* C4: setDefault succeeds only for a non-deleted address owned by the
\* caller; otherwise it fails with NotFound and no default flag changes.
C4_SetDefaultOwnerOnly ==
    last.op = "set_default" =>
        IF Live(pre, last.aid) /\ pre[last.aid].owner = last.caller
        THEN last.outcome = "ok"
        ELSE /\ last.outcome = "NotFound"
             /\ \A i \in AddrIds : addrs[i].is_default = pre[i].is_default

\* C5: no address request of caller u changes, or returns, an address whose
\* owner is another user.
C5_NoForeignEffect ==
    last.op # "none" =>
        \A i \in AddrIds :
            (pre[i].exists /\ pre[i].owner # last.caller)
                => (addrs[i] = pre[i] /\ i \notin last.ret)

\* C6: getAddress answers NotFound alike for a missing address, a
\* soft-deleted one and one owned by another user, and returns the address
\* only to its owner; it never changes the table.
C6_GetAddressNotFoundAlike ==
    last.op = "get" =>
        /\ addrs = pre
        /\ IF Live(pre, last.aid) /\ pre[last.aid].owner = last.caller
           THEN last.outcome = "ok" /\ last.ret = {last.aid}
           ELSE last.outcome = "NotFound" /\ last.ret = {}

C6_Witness ==
    /\ last.op = "get"
    /\ Live(pre, last.aid)
    /\ pre[last.aid].owner # last.caller
    /\ last.outcome = "NotFound"

\* C7: a successful updateAddress whose body sets the default flag true
\* leaves the target as the owner's only default; a successful one whose body
\* does not set it true changes no other address's default flag.
C7_UpdateDefault ==
    (last.op = "update" /\ last.outcome = "ok") =>
        IF last.inp = "true"
        THEN /\ Defaults(addrs, last.caller) = {last.aid}
             /\ \A i \in AddrIds :
                    pre[i].owner # last.caller => addrs[i] = pre[i]
        ELSE \A i \in AddrIds \ {last.aid} : addrs[i] = pre[i]

C7_Witness ==
    /\ last.op = "update"
    /\ last.outcome = "ok"
    /\ last.inp = "true"
    /\ Defaults(pre, last.caller) \ {last.aid} # {}
    /\ Defaults(addrs, last.caller) = {last.aid}

\* ------------------------------------------------------------------ claims, repository layer
\* C8: after clearDefault(owner) no non-deleted address of that owner has the
\* default flag set (in the session that ran it, and in the table once that
\* session commits), and the addresses of all other owners are unchanged.
C8_ClearDefault ==
    /\ rlast.op = "clear_default" =>
          /\ \A i \in get_by_owner(addrs, rlast.owner) : ~View(addrs, sess)[i].is_default
          /\ \A i \in AddrIds :
                rpre[i].owner # rlast.owner => View(addrs, sess)[i] = rpre[i]
    /\ (rlast.op = "commit" /\ rlast.owner # None) =>
          /\ Defaults(addrs, rlast.owner) = {}
          /\ \A i \in AddrIds : rpre[i].owner # rlast.owner => addrs[i] = rpre[i]

C8_Witness ==
    /\ rlast.op = "clear_default"
    /\ Cardinality(get_by_owner(addrs, rlast.owner)) >= 2
    /\ \E i \in get_by_owner(addrs, rlast.owner) :
          rpre[i].is_default /\ ~View(addrs, sess)[i].is_default

\* ------------------------------------------------------------------ claims, concurrent requests
BothDone == \A t \in Tasks : task[t].pc = "done"

SameOwnerTwoTargets ==
    /\ task["r1"].caller = task["r2"].caller
    /\ task["r1"].aid # task["r2"].aid
    /\ \A t \in Tasks : addrs[task[t].aid].owner = task[t].caller

BothTargetsDefault ==
    \A t \in Tasks : Live(addrs, task[t].aid) /\ addrs[task[t].aid].is_default

C9_DeletedUserRejected ==
    (/\ greq.route = "protected"
     /\ greq.token.kind = "valid"
     /\ greq.subrow.exists
     /\ greq.subrow.deleted)
        => (greq.status = "NotFound" /\ ~greq.ran)

ExpectedGuardStatus(token, row, allowed) ==
    CASE token.kind = "none" -> "Unauthorized"
      [] token.kind = "bad" -> "Forbidden"
      [] token.kind = "valid" /\ ~row.exists -> "NotFound"
      [] token.kind = "valid" /\ row.exists /\ ~row.is_active -> "BadRequest"
      [] token.kind = "valid" /\ row.exists /\ row.is_active /\ row.role \notin allowed
            -> "Forbidden"
      [] OTHER -> "pass"

\* C10: the guard answers every request to a protected route with exactly one
\* outcome, decided in the order: no token -> Unauthorized; token rejected ->
\* Forbidden; subject has no user row -> NotFound; user inactive ->
\* BadRequest; role not allowed -> Forbidden; otherwise the user.  The route
\* body runs only in the last case, and a rejected request leaves the users
\* table unchanged.
C10_GuardDecision ==
    greq.route = "protected" =>
        /\ greq.status = ExpectedGuardStatus(greq.token, greq.subrow, greq.allowed)
        /\ greq.ran = (greq.status = "pass")
        /\ ~greq.ran => ~greq.changed

C10_Witness ==
    /\ greq.route = "protected"
    /\ greq.token.kind = "valid"
    /\ greq.subrow.exists
    /\ ~greq.subrow.is_active
    /\ greq.subrow.role \notin greq.allowed
    /\ greq.status = "BadRequest"
    /\ ~greq.ran

\* C11: an admin-only operation (create, update, delete user) takes effect only
\* for a caller whose role is admin; an authenticated caller of any other role
\* is answered Forbidden and the users table stays as it was; listing users
\* runs only for a caller whose role is admin or manager.
C11_AdminOnly ==
    (greq.route = "protected" /\ greq.allowed # Roles) =>
        /\ (greq.ran \/ greq.changed) => greq.subrow.role \in greq.allowed
        /\ (/\ greq.token.kind = "valid"
            /\ greq.subrow.exists
            /\ greq.subrow.is_active
            /\ greq.subrow.role \notin greq.allowed)
              => (greq.status = "Forbidden" /\ ~greq.ran /\ ~greq.changed)
        /\ (/\ greq.token.kind = "valid"
            /\ greq.subrow.exists
            /\ greq.subrow.is_active
            /\ greq.subrow.role \in greq.allowed) => greq.ran

C11_Witness ==
    /\ greq.route = "protected"
    /\ greq.allowed = {"admin"}
    /\ greq.token.kind = "valid"
    /\ greq.subrow.exists
    /\ greq.subrow.is_active
    /\ greq.subrow.role = "manager"
    /\ greq.status = "Forbidden"
    /\ ~greq.changed

\* ------------------------------------------------------------------ claims, accounts
\* C12: in every state reached by creating users, updating users (the e-mail
\* included) and soft-deleting users, no two non-deleted users have the same
\* e-mail.
C12_UniqueLiveEmail ==
    \A e \in Emails : Cardinality(LiveHolders(users, e)) <= 1

C12_Witness ==
    /\ ulast.op = "update"
    /\ ulast.status = "ServerError"
    /\ LiveHolders(upre, ulast.email) \ {ulast.target} # {}
    /\ Live(upre, ulast.target)

\* C13: createUser fails with Conflict exactly when a non-deleted user holds
\* the e-mail, and then the table is unchanged; in every other case, also when
\* only a soft-deleted user holds the e-mail, it creates the user.
C13_CreateConflictExactly ==
    ulast.op = "create" =>
        IF LiveHolders(upre, ulast.email) # {}
        THEN ulast.status = "Conflict" /\ users = upre
        ELSE /\ ulast.status = "ok"
             /\ \E u \in UserIds :
                    /\ ~upre[u].exists
                    /\ Live(users, u)
                    /\ users[u].email = ulast.email
                    /\ \A v \in UserIds \ {u} : users[v] = upre[v]

\* C17: changePassword succeeds exactly when old verifies against the stored
\* hash and new does not; after a success the stored hash verifies new and not
\* old, and a login with new succeeds while one with old fails; a rejection
\* is BadRequest and leaves the hash and updated_at as they were.
C17_ChangePassword ==
    LET c   == ulast.caller
        row == upre[c]
    IN  (ulast.op = "change_password" /\ row.exists /\ row.is_active) =>
            IF verify_password(ulast.old, row.hash) /\ ~verify_password(ulast.new, row.hash)
            THEN /\ ulast.status = "ok"
                 /\ verify_password(ulast.new, users[c].hash)
                 /\ ~verify_password(ulast.old, users[c].hash)
                 /\ log_in(users, users[c].email, ulast.new).status = "ok"
                 /\ log_in(users, users[c].email, ulast.old).status = "Unauthorized"
            ELSE /\ ulast.status = "BadRequest"
                 /\ users = upre
                 /\ ulast.stamped = {}

\* C14: a soft-deleted entity is never returned by get, get_listing,
\* get_by_owner or get_default (get of its id returns nothing) and is not
\* counted by get_count.
C14_SoftDeletedExcluded ==
    /\ rlast.op \in {"get", "get_listing", "get_by_owner", "get_default"} =>
          \A i \in rlast.ret : addrs[i].exists /\ ~addrs[i].deleted
    /\ (rlast.op = "get" /\ addrs[rlast.aid].deleted) => rlast.ret = {}
    /\ rlast.op = "get_count" =>
          rlast.n = Cardinality({i \in AddrIds : addrs[i].exists})
                    - Cardinality({i \in AddrIds : addrs[i].exists /\ addrs[i].deleted})

C14_Witness ==
    /\ rlast.op = "get_listing"
    /\ rlast.ret # {}
    /\ \E i \in AddrIds : addrs[i].exists /\ addrs[i].deleted

\* C15: update of an entity whose deleted_at is set, and soft_delete of an id
\* with no live entity, raise NotFound and change nothing: no write to the
\* table, no row differs from before, no updated_at is set.
C15_NotFoundUnchanged ==
    /\ (rlast.op = "update" /\ rpre[rlast.aid].deleted) =>
          /\ rlast.raised
          /\ ~rlast.wrote
          /\ rlast.stamped = {}
          /\ View(addrs, sess) = rpre
    /\ (rlast.op = "soft_delete"
          /\ (~rpre[rlast.aid].exists \/ rpre[rlast.aid].deleted)) =>
          /\ rlast.raised
          /\ ~rlast.wrote
          /\ View(addrs, sess) = rpre

C15_Witness ==
    /\ rlast.op = "update"
    /\ rlast.partial # "unset"
    /\ rpre[rlast.aid].deleted
    /\ rlast.raised

\* C16: a successful update sets is_default to the value the body gave and
\* leaves it alone when the body did not give one, sets updated_at of that
\* entity, keeps its other fields and changes no other entity.
C16_PartialUpdate ==
    (rlast.op = "update" /\ ~rlast.raised) =>
        LET a == rlast.aid
            v == View(addrs, sess)
        IN  /\ v[a].is_default = IF rlast.partial = "unset" THEN rpre[a].is_default
                                  ELSE (rlast.partial = "true")
            /\ v[a].exists = rpre[a].exists
            /\ v[a].owner = rpre[a].owner
            /\ v[a].deleted = rpre[a].deleted
            /\ addrs[a] = v[a]
            /\ rlast.stamped = {a}
            /\ \A i \in AddrIds \ {a} : v[i] = rpre[i]

C16_Witness ==
    /\ rlast.op = "update"
    /\ ~rlast.raised
    /\ rlast.partial = "unset"
    /\ rpre[rlast.aid].is_default
    /\ \E i \in AddrIds \ {rlast.aid} : addrs[i].exists

\* C18: DELETE /users/me by an authenticated user answers Forbidden exactly
\* when the user's role is admin, and then leaves every user as it was; a
\* user of any other role is soft-deleted afterwards (row kept, deleted_at
\* set, nothing else of the row changed), no other user is changed, and a
\* live user gets the success answer.
C18_DeleteMe ==
    LET c == ulast.caller
    IN  (ulast.op = "delete_me" /\ upre[c].exists /\ upre[c].is_active) =>
            /\ ulast.status = "Forbidden" <=> upre[c].role = "admin"
            /\ upre[c].role = "admin" => users = upre
            /\ upre[c].role # "admin" =>
                  /\ users = [upre EXCEPT ![c] = [upre[c] EXCEPT !.deleted = TRUE]]
                  /\ Live(upre, c) => ulast.status = "ok"

C18_Witness ==
    /\ ulast.op = "delete_me"
    /\ ulast.status = "ok"
    /\ Live(upre, ulast.caller)
    /\ users[ulast.caller].exists
    /\ users[ulast.caller].deleted

\* C19: DELETE /users/{id} by an admin answers Forbidden when the id is the
\* admin's own, NotFound when no live user has the id, and otherwise
\* soft-deletes the target and nothing else; on either failure no user is
\* changed.
C19_DeleteUser ==
    LET c == ulast.caller
        t == ulast.target
    IN  (ulast.op = "delete" /\ upre[c].exists /\ upre[c].is_active
            /\ upre[c].role = "admin") =>
            IF t = c THEN ulast.status = "Forbidden" /\ users = upre
            ELSE IF ~Live(upre, t) THEN ulast.status = "NotFound" /\ users = upre
            ELSE /\ ulast.status = "ok"
                 /\ users = [upre EXCEPT ![t] = [upre[t] EXCEPT !.deleted = TRUE]]

C19_Witness ==
    /\ ulast.op = "delete"
    /\ ulast.target = ulast.caller
    /\ ulast.status = "Forbidden"
    /\ Live(users, ulast.caller)

\* C20: GET /users/{id} by an authenticated user answers Forbidden when the
\* caller is neither that user nor an admin, whether or not a live user has
\* the id; otherwise it answers with the user when one is live and NotFound
\* when none is; it changes nothing.
C20_GetUserById ==
    LET c == ulast.caller
        t == ulast.target
    IN  (ulast.op = "get" /\ upre[c].exists /\ upre[c].is_active) =>
            /\ users = upre
            /\ IF c # t /\ upre[c].role # "admin" THEN ulast.status = "Forbidden"
               ELSE ulast.status = IF Live(upre, t) THEN "ok" ELSE "NotFound"

C20_Witness ==
    /\ ulast.op = "get"
    /\ ulast.status = "Forbidden"
    /\ ulast.target # ulast.caller
    /\ ~Live(upre, ulast.target)

\* C21: login answers with a token exactly when a non-deleted user holds the
\* e-mail, the password verifies against that user's hash and the user is
\* active; it answers 401 when no live user holds the e-mail or the password
\* does not verify, 400 when the credentials are right and the user is
\* inactive; it never changes the users table.
C21_Login ==
    ulast.op = "login" =>
        /\ users = upre
        /\ IF LiveHolders(upre, ulast.email) = {} THEN ulast.status = "Unauthorized"
           ELSE \A u \in LiveHolders(upre, ulast.email) :
                   ulast.status =
                       IF ~verify_password(ulast.new, upre[u].hash) THEN "Unauthorized"
                       ELSE IF ~upre[u].is_active THEN "BadRequest"
                       ELSE "ok"

C21_Witness ==
    /\ ulast.op = "login"
    /\ ulast.status = "Unauthorized"
    /\ \E u \in UserIds :
          /\ upre[u].exists
          /\ upre[u].deleted
          /\ upre[u].email = ulast.email
          /\ upre[u].is_active
          /\ verify_password(ulast.new, upre[u].hash)

\* C22: list_users answers with total = the number of non-deleted users that
\* match every given filter, total_pages = the least k with k * page_size >=
\* total, and exactly min(page_size, max(0, total - (page-1)*page_size))
\* users, each non-deleted and matching the filters.
C22_ListUsers ==
    (ulast.op = "list" /\ ulast.status = "ok") =>
        LET l == ulast.listing
            f == l.filters
            matching ==
                {u \in UserIds :
                    /\ Live(users, u)
                    /\ f.is_active # "unset" => users[u].is_active = (f.is_active = "true")
                    /\ f.is_verified # "unset" =>
                          users[u].is_verified = (f.is_verified = "true")
                    /\ f.role # "unset" => users[u].role = f.role}
            rest == Cardinality(matching) - (l.page - 1) * l.page_size
        IN  /\ l.total = Cardinality(matching)
            /\ l.total_pages * l.page_size >= l.total
            /\ (l.total_pages - 1) * l.page_size < l.total
            /\ l.total_pages >= 0
            /\ Cardinality(l.ret) = Min(l.page_size, IF rest < 0 THEN 0 ELSE rest)
            /\ l.ret \subseteq matching

C22_Witness ==
    /\ ulast.op = "list"
    /\ ulast.status = "ok"
    /\ ulast.listing.filters.is_active = "false"
    /\ ulast.listing.page = 2
    /\ ulast.listing.page_size = 1
    /\ ulast.listing.total = 1
    /\ ulast.listing.ret = {}
    /\ \E u \in UserIds : Live(users, u) /\ users[u].is_active

\* C23 as stated: when setDefault fails after its clear step, the clear is
\* already committed and the owner has no default address in the table.
C23_ClearCommittedOnFailure ==
    (last.op = "set_default" /\ last.outcome # "ok") => Defaults(addrs, last.caller) = {}

\* C23 as amended: the clear step of setDefault is not committed on its own;
\* when setDefault fails after it, nothing has been written: the table, and
\* with it the owner's default address, is as it was before the request.
C23_FailedSetDefaultWritesNothing ==
    (last.op = "set_default" /\ last.outcome # "ok") => addrs = pre

C23_Witness ==
    /\ last.op = "set_default"
    /\ last.outcome # "ok"
    /\ Defaults(pre, last.caller) # {}
    /\ Defaults(addrs, last.caller) = Defaults(pre, last.caller)

\* C24 as stated: createUser followed by getByEmail with the same email
\* returns a user whose stored credential verifies against the plaintext and
\* against no other plaintext, and is not the plaintext.
C24_CredentialVerifiesOnlyPlaintext ==
    (ulast.op = "create" /\ ulast.status = "ok") =>
        LET u == get_user_by_email(users, ulast.email)
        IN  /\ u # None
            /\ verify_password(ulast.new, users[u].hash)
            /\ \A p \in Passwords \ {ulast.new} : ~verify_password(p, users[u].hash)
            /\ users[u].hash # ulast.new

\* C24 as amended: the stored credential verifies against the plaintext, and
\* against no plaintext that differs from it within its first 72 bytes, and is
\* not the plaintext.
C24_CredentialVerifiesPlaintext ==
    (ulast.op = "create" /\ ulast.status = "ok") =>
        LET u == get_user_by_email(users, ulast.email)
        IN  /\ u # None
            /\ verify_password(ulast.new, users[u].hash)
            /\ \A p \in Passwords :
                   p.head # ulast.new.head => ~verify_password(p, users[u].hash)
            /\ users[u].hash # ulast.new

C24_Witness ==
    /\ ulast.op = "create"
    /\ ulast.status = "ok"
    /\ get_user_by_email(users, ulast.email) # None
    /\ verify_password(ulast.new, users[get_user_by_email(users, ulast.email)].hash)
    /\ \E p \in Passwords \ {ulast.new} :
           verify_password(p, users[get_user_by_email(users, ulast.email)].hash)
    /\ \E p \in Passwords :
           ~verify_password(p, users[get_user_by_email(users, ulast.email)].hash)

\* C25: getDefault(owner) completes without error and returns the owner's
\* single live default address, or none when the owner has no such address.
C25_GetDefault ==
    rlast.op = "get_default" =>
        /\ ~rlast.raised
        /\ rlast.ret = Defaults(addrs, rlast.owner)
        /\ Cardinality(rlast.ret) <= 1

\* C26: a successful softDelete(id) sets the deletion timestamp of that row
\* and nothing else: every other field of the row (its default flag, its
\* updated_at) and every other row is as before, and soft-deleting a user
\* leaves the addresses table, that user's addresses with it, as it was.
C26_SoftDeleteFrame ==
    /\ [](/\ (rlast.op = "soft_delete" /\ ~rlast.raised) =>
                /\ Live(rpre, rlast.aid)
                /\ addrs = [rpre EXCEPT ![rlast.aid].deleted = TRUE]
                /\ rlast.stamped = {}
          /\ (ulast.op \in {"delete_me", "delete"} /\ ulast.status = "ok") =>
                /\ Live(upre, ulast.target)
                /\ users = [upre EXCEPT ![ulast.target].deleted = TRUE]
                /\ ulast.stamped = {})
    /\ [][(\E u \in UserIds : ~users[u].deleted /\ users'[u].deleted) => addrs' = addrs]_vars

C26_Witness ==
    /\ rlast.op = "soft_delete"
    /\ ~rlast.raised
    /\ rpre[rlast.aid].is_default
    /\ addrs[rlast.aid].is_default
    /\ addrs[rlast.aid].deleted
    /\ ulast.op \in {"delete_me", "delete"}
    /\ ulast.status = "ok"
    /\ users[ulast.target].deleted
    /\ \E a \in get_by_owner(addrs, ulast.target) : addrs[a].is_default
    /\ rpre[rlast.aid].owner = ulast.target

\* C27: delete(id) returns true exactly when a live row with that id existed,
\* and then the row is gone and the other rows are as before; it returns
\* false and changes nothing when the id is absent or names a soft-deleted
\* row, so a soft-deleted row is never hard-deleted.
C27_HardDelete ==
    rlast.op = "delete" =>
        /\ rlast.ret = {Live(rpre, rlast.aid)}
        /\ Live(rpre, rlast.aid) =>
              addrs = [i \in AddrIds |-> IF i = rlast.aid THEN NoRow ELSE rpre[i]]
        /\ ~Live(rpre, rlast.aid) => addrs = rpre

C27_Witness ==
    /\ rlast.op = "delete"
    /\ rlast.ret = {FALSE}
    /\ rpre[rlast.aid].exists
    /\ rpre[rlast.aid].deleted
    /\ addrs[rlast.aid] = rpre[rlast.aid]
    /\ \E i \in AddrIds : Live(addrs, i)

\* C28: a request whose caller is not an administrator (registration, self
\* update, change of password, self delete, an address request) leaves the
\* role, the active flag and the verified flag of every user as they were,
\* and a user created by registration has role customer and is active.
C28_NonAdminKeepsRoleAndFlags ==
    /\ []((ulast.op # "none" /\ (ulast.caller = None \/ upre[ulast.caller].role # "admin")) =>
            /\ \A u \in UserIds : upre[u].exists =>
                   /\ users[u].role = upre[u].role
                   /\ users[u].is_active = upre[u].is_active
                   /\ users[u].is_verified = upre[u].is_verified
            /\ \A u \in UserIds : (users[u].exists /\ ~upre[u].exists) =>
                   /\ ulast.op = "create"
                   /\ users[u].role = "customer"
                   /\ users[u].is_active)
    /\ []((ulast.op = "create" /\ ulast.status = "ok") =>
            \E u \in UserIds : users[u].exists /\ ~upre[u].exists)
    /\ [][last' # last => users' = users]_vars

C28_Witness ==
    /\ ulast.op = "update"
    /\ ulast.status = "ok"
    /\ ulast.caller = ulast.target
    /\ upre[ulast.caller].role = "manager"
    /\ upre[ulast.caller].is_verified
    /\ users[ulast.caller].role = "manager"
    /\ users[ulast.caller].is_verified
    /\ last.op = "create"
    /\ last.caller = ulast.caller

\* C29: of two requests that call createUser with the same email, in any
\* interleaving of their lookups and inserts, at most one succeeds, and the
\* table never holds two users with that email.
C29_ConcurrentCreateUser ==
    /\ \A e \in Emails :
          Cardinality({u \in UserIds : users[u].exists /\ users[u].email = e}) <= 1
    /\ \A t \in Tasks : \A o \in Tasks \ {t} :
          (task[t].pc = "created" /\ task[o].pc = "created") => task[t].email # task[o].email

C29_Witness ==
    /\ overlap
    /\ \E t \in Tasks : \E o \in Tasks \ {t} :
          /\ task[t].pc = "created"
          /\ task[o].pc = "error"
          /\ task[t].email = task[o].email
          /\ Cardinality(LiveHolders(users, task[t].email)) = 1

\* C30: once a user or an address is soft-deleted, no request changes the
\* row again: its deletion timestamp stays set and its other fields stay as
\* they were.
C30_SoftDeletePermanent ==
    [][/\ \A u \in UserIds : (users[u].exists /\ users[u].deleted) => users'[u] = users[u]
       /\ \A a \in AddrIds : (addrs[a].exists /\ addrs[a].deleted) => addrs'[a] = addrs[a]]_vars

====
